---- MODULE Spec2Model ----
(***************************************************************************)
(* Model of src-tauri/src/lib.rs: the three event handlers registered by   *)
(* run() -- the "deep-link://new-url" listener, the tray on_menu_event     *)
(* handler and the tray on_tray_icon_event handler -- acting on the main   *)
(* webview window owned by the host framework.                             *)
(*                                                                         *)
(* Text is modelled as a sequence of lexical tokens.  The characters that  *)
(* matter to the escaping in the deep-link handler (single quote,          *)
(* backslash, an ordinary character) are one token each; a stretch of the  *)
(* fixed script template that holds neither a quote nor a backslash is one *)
(* token.                                                                  *)
(***************************************************************************)
EXTENDS Integers, Sequences, FiniteSets, TLC

\* ------------------------------------------------------------------ bounds
MaxUrlLen == 3      \* length of the first URL of a payload
MaxUrls == 2        \* number of elements of a payload array
MaxRestLen == 1     \* length of the URLs after the first

\* ------------------------------------------------------------ text helpers
QUOTE == "'"
BACKSLASH == "\\"
UrlChars == {QUOTE, BACKSLASH, "a"}

SeqsUpTo(S, n) == UNION {[1..k -> S] : k \in 0..n}

\* str::replace('\'', "\\'") : every single quote becomes backslash, quote;
\* every other character is copied.
RECURSIVE replace(_)
replace(s) ==
    IF s = <<>> THEN <<>>
    ELSE IF Head(s) = QUOTE
         THEN <<BACKSLASH, QUOTE>> \o replace(Tail(s))
         ELSE <<Head(s)>> \o replace(Tail(s))

\* format!("window.__DEEP_LINK_URL__ = '{}'; window.dispatchEvent(new
\*          CustomEvent('deep-link', {{ detail: '{}' }}));", a, b)
format(a, b) ==
    <<"window.__DEEP_LINK_URL__ = ", QUOTE>> \o a \o
    <<QUOTE, "; window.dispatchEvent(new CustomEvent(", QUOTE, "deep-link",
      QUOTE, ", { detail: ", QUOTE>> \o b \o
    <<QUOTE, " }));">>

DashboardJs == <<"window.location.hash = ", QUOTE, "#/dashboard", QUOTE, ";">>
IncidentsJs == <<"window.location.hash = ", QUOTE, "#/incidents", QUOTE, ";">>

\* ------------------------------------------------------------- the payload
\* The event payload is JSON text; it is modelled by the JSON value the text
\* denotes, or by "garbage" when the text is not JSON at all.
JStr(s) == [type |-> "string", items |-> s]
JArr(xs) == [type |-> "array", items |-> xs]
JOther(t) == [type |-> t, items |-> <<>>]

FirstUrls == SeqsUpTo(UrlChars, MaxUrlLen)
RestUrls == SeqsUpTo(UrlChars, MaxRestLen)

\* arrays of strings: empty, or a first URL followed by up to MaxUrls-1 more
UrlLists ==
    {<<>>} \cup
    {<<u>> \o r : u \in FirstUrls, r \in SeqsUpTo(RestUrls, MaxUrls - 1)}

StringArrays == {JArr([i \in 1..Len(l) |-> JStr(l[i])]) : l \in UrlLists}

\* payloads that are not a JSON array of strings
BadPayloads ==
    { JOther("garbage"), JOther("null"), JOther("number"), JOther("object"),
      JStr(<<"a">>),
      JArr(<<JOther("number")>>),
      JArr(<<JStr(<<"a">>), JOther("null")>>),
      JArr(<<JArr(<<JStr(<<"a">>)>>)>>) }

Payloads == StringArrays \cup BadPayloads

\* serde_json::from_str::<Vec<String>>(payload): Ok(vec) exactly when the text
\* is a JSON array all of whose elements are strings.
from_str(p) ==
    IF p.type = "array" /\ \A i \in 1..Len(p.items) : p.items[i].type = "string"
    THEN [ok |-> TRUE, val |-> [i \in 1..Len(p.items) |-> p.items[i].items]]
    ELSE [ok |-> FALSE, val |-> <<>>]

\* slice::last() where the code calls first()
last(v) == IF v = <<>> THEN [some |-> FALSE, val |-> <<>>]
           ELSE [some |-> TRUE, val |-> v[Len(v)]]

\* first().cloned().unwrap_or_default(): an empty list yields the empty URL
first_or_default(v) == IF v = <<>> THEN [some |-> TRUE, val |-> <<>>]
                       ELSE [some |-> TRUE, val |-> v[1]]

\* slice::first()
first(v) == IF v = <<>> THEN [some |-> FALSE, val |-> <<>>]
            ELSE [some |-> TRUE, val |-> v[1]]

\* ---------------------------------------------------------------- the state
VARIABLES
    window,     \* the main webview window as the framework holds it
    before,     \* the window as it was when the last handler was entered
    lastEvent,  \* the event the last handler was invoked with
    trace,      \* the framework calls the last handler made, in order
    crashed,    \* a handler propagated an error (panic)
    exited,     \* app.exit was issued
    exitCode,   \* the code passed to app.exit, -1 while not exited
    loop        \* "waiting": the event loop waits for an event;
                \* "dispatched": a handler has just run and returned

vars == <<window, before, lastEvent, trace, crashed, exited, exitCode, loop>>

NoWindow == [exists |-> FALSE, visible |-> FALSE, focused |-> FALSE]
Windows == {NoWindow} \cup
           [exists : {TRUE}, visible : BOOLEAN, focused : BOOLEAN]

MenuIds == {"show", "dashboard", "incidents", "quit", "Show", "", "settings"}
TrayIconEvents == {"Click", "DoubleClick", "Enter", "Move", "Leave"}

NoEvent == [kind |-> "none", id |-> "", payload |-> JOther("none")]
DeepLinkEv(p) == [kind |-> "deep-link", id |-> "deep-link://new-url", payload |-> p]
MenuEv(id) == [kind |-> "menu", id |-> id, payload |-> JOther("none")]
TrayEv(e) == [kind |-> "tray-icon", id |-> e, payload |-> JOther("none")]

Call(op, arg) == [op |-> op, arg |-> arg]

\* `result?` / `result.unwrap()`: a failed call ends the handler
Propagate(ok) == ok

\* `let _ = result;` : the result is dropped, the handler goes on.
Discard(ok) == TRUE

\* One framework call on the window and what it leaves behind when it
\* succeeds; a failed call leaves the window as it was.
Effect(win, op, ok) ==
    IF ~ok THEN win
    ELSE IF op = "show" THEN [win EXCEPT !.visible = TRUE]
    ELSE IF op = "set_focus" THEN [win EXCEPT !.focused = TRUE]
    ELSE win

\* The statements of an `if let Some(window) = ...` body, run in order; oks[i]
\* is whether the i-th call succeeds.
RECURSIVE RunBody(_, _, _, _, _)
RunBody(calls, oks, i, win, tr) ==
    IF i > Len(calls)
    THEN [window |-> win, trace |-> tr, crashed |-> FALSE, exit |-> -1]
    ELSE LET c == calls[i]
             tr2 == Append(tr, [op |-> c.op, arg |-> c.arg, ok |-> oks[i]])
             win2 == Effect(win, c.op, oks[i])
         IN IF Discard(oks[i])
            THEN RunBody(calls, oks, i + 1, win2, tr2)
            ELSE [window |-> win2, trace |-> tr2, crashed |-> TRUE, exit |-> -1]

\* `let window = app.get_webview_window("main").unwrap();`
UnwrapMainWindow(win, body, oks) ==
    LET lookup == [op |-> "get_webview_window", arg |-> <<"main">>, ok |-> win.exists]
    IN IF win.exists
       THEN RunBody(body, oks, 1, win, <<lookup>>)
       ELSE [window |-> win, trace |-> <<lookup>>, crashed |-> TRUE, exit |-> -1]

\* `if let Some(window) = app.get_webview_window("main") { body }`
WithMainWindow(win, body, oks) ==
    LET lookup == [op |-> "get_webview_window", arg |-> <<"main">>, ok |-> win.exists]
    IN IF win.exists
       THEN RunBody(body, oks, 1, win, <<lookup>>)
       ELSE [window |-> win, trace |-> <<lookup>>, crashed |-> FALSE, exit |-> -1]

Nothing(win) == [window |-> win, trace |-> <<>>, crashed |-> FALSE, exit |-> -1]

\* the deep-link body with the script injected before the window is revealed
DeepLinkBodyEvalFirst(url) ==
    <<Call("eval", format(replace(url), replace(url))),
      Call("show", <<>>), Call("set_focus", <<>>)>>

\* the body of the deep-link listener for one payload
DeepLinkBody(url) ==
    <<Call("show", <<>>), Call("set_focus", <<>>),
      Call("eval", format(replace(url), replace(url)))>>

DeepLinkHandler(win, payload, oks) ==
    LET urls == from_str(payload)
    IN IF ~urls.ok THEN Nothing(win)
       ELSE LET url == first(urls.val)
            IN IF ~url.some THEN Nothing(win)
               ELSE WithMainWindow(win, DeepLinkBody(url.val), oks)

\* app.exit(code)
Exit(win, code, arg) ==
    [window |-> win, crashed |-> FALSE, exit |-> code,
     trace |-> <<[op |-> "exit", arg |-> arg, ok |-> TRUE]>>]

\* on_menu_event with the two routes exchanged
MenuHandlerSwapped(win, id, oks) ==
    CASE id = "show" ->
           WithMainWindow(win, <<Call("show", <<>>), Call("set_focus", <<>>)>>, oks)
      [] id = "dashboard" ->
           WithMainWindow(win, <<Call("show", <<>>), Call("set_focus", <<>>),
                                 Call("eval", IncidentsJs)>>, oks)
      [] id = "incidents" ->
           WithMainWindow(win, <<Call("show", <<>>), Call("set_focus", <<>>),
                                 Call("eval", DashboardJs)>>, oks)
      [] id = "quit" -> Exit(win, 0, <<"0">>)
      [] OTHER -> Nothing(win)

\* on_menu_event whose quit arm brings the window up before it exits
MenuHandlerQuitShows(win, id, oks) ==
    CASE id = "show" ->
           WithMainWindow(win, <<Call("show", <<>>), Call("set_focus", <<>>)>>, oks)
      [] id = "dashboard" ->
           WithMainWindow(win, <<Call("show", <<>>), Call("set_focus", <<>>),
                                 Call("eval", DashboardJs)>>, oks)
      [] id = "incidents" ->
           WithMainWindow(win, <<Call("show", <<>>), Call("set_focus", <<>>),
                                 Call("eval", IncidentsJs)>>, oks)
      [] id = "quit" ->
           LET r == WithMainWindow(win, <<Call("show", <<>>)>>, oks)
           IN [window |-> r.window, crashed |-> FALSE, exit |-> 0,
               trace |-> Append(r.trace, [op |-> "exit", arg |-> <<"0">>, ok |-> TRUE])]
      [] OTHER -> Nothing(win)

\* match event.id().as_ref() { ... } in on_menu_event
MenuHandler(win, id, oks) ==
    CASE id = "show" ->
           WithMainWindow(win, <<Call("show", <<>>), Call("set_focus", <<>>)>>, oks)
      [] id = "dashboard" ->
           WithMainWindow(win, <<Call("show", <<>>), Call("set_focus", <<>>),
                                 Call("eval", DashboardJs)>>, oks)
      [] id = "incidents" ->
           WithMainWindow(win, <<Call("show", <<>>), Call("set_focus", <<>>),
                                 Call("eval", IncidentsJs)>>, oks)
      [] id = "quit" -> Exit(win, 0, <<"0">>)
      [] OTHER -> Nothing(win)

\* on_tray_icon_event that treats a single click like a double click
TrayIconHandlerAnyClick(win, e, oks) ==
    IF e \in {"Click", "DoubleClick"}
    THEN WithMainWindow(win, <<Call("show", <<>>), Call("set_focus", <<>>)>>, oks)
    ELSE Nothing(win)

\* on_tray_icon_event that exits the application on a double click
TrayIconHandlerExits(win, e, oks) ==
    IF e = "DoubleClick" THEN Exit(win, 0, <<"0">>) ELSE Nothing(win)

TrayIconHandler(win, e, oks) ==
    IF e = "DoubleClick"
    THEN WithMainWindow(win, <<Call("show", <<>>), Call("set_focus", <<>>)>>, oks)
    ELSE Nothing(win)

Running == ~exited /\ ~crashed
Waiting == Running /\ loop = "waiting"

Results == [1..3 -> BOOLEAN]

Init ==
    /\ window \in Windows
    /\ before = window
    /\ lastEvent = NoEvent
    /\ trace = <<>>
    /\ crashed = FALSE
    /\ exited = FALSE
    /\ exitCode = -1
    /\ loop = "waiting"

\* the framework delivers a "deep-link://new-url" event
DeepLinkEvent ==
    /\ Waiting
    /\ loop' = "dispatched"
    /\ \E p \in Payloads, oks \in Results :
         LET r == DeepLinkHandler(window, p, oks)
         IN /\ lastEvent' = DeepLinkEv(p)
            /\ before' = window
            /\ window' = r.window
            /\ trace' = r.trace
            /\ crashed' = r.crashed
            /\ exited' = (r.exit # -1)
            /\ exitCode' = r.exit

\* the framework delivers a tray menu event
MenuEvent ==
    /\ Waiting
    /\ loop' = "dispatched"
    /\ \E id \in MenuIds, oks \in Results :
         LET r == MenuHandler(window, id, oks)
         IN /\ lastEvent' = MenuEv(id)
            /\ before' = window
            /\ window' = r.window
            /\ trace' = r.trace
            /\ crashed' = r.crashed
            /\ exited' = (r.exit # -1)
            /\ exitCode' = r.exit

\* the framework delivers a tray icon event
TrayIconEvent ==
    /\ Waiting
    /\ loop' = "dispatched"
    /\ \E e \in TrayIconEvents, oks \in Results :
         LET r == TrayIconHandler(window, e, oks)
         IN /\ lastEvent' = TrayEv(e)
            /\ before' = window
            /\ window' = r.window
            /\ trace' = r.trace
            /\ crashed' = r.crashed
            /\ exited' = (r.exit # -1)
            /\ exitCode' = r.exit

\* between events the user or the window system hides, blurs, closes or
\* reopens the main window
WindowChanged ==
    /\ Waiting
    /\ \E w \in Windows : w # window /\ window' = w /\ before' = w
    /\ UNCHANGED <<lastEvent, trace, crashed, exited, exitCode, loop>>

\* the handler has returned; unless the process is gone, the event loop waits
\* for the next event
ReturnToLoop ==
    /\ loop = "dispatched"
    /\ Running
    /\ loop' = "waiting"
    /\ lastEvent' = NoEvent
    /\ trace' = <<>>
    /\ before' = window
    /\ UNCHANGED <<window, crashed, exited, exitCode>>

Next ==
    DeepLinkEvent \/ MenuEvent \/ TrayIconEvent \/ WindowChanged \/ ReturnToLoop

Spec == Init /\ [][Next]_vars

\* ------------------------------------------------------------- properties
Ops(tr) == [i \in 1..Len(tr) |-> tr[i].op]
IsEval(c) == c.op = "eval"
Evals(tr) == SelectSeq(tr, IsEval)
Handled(kind) == loop = "dispatched" /\ lastEvent.kind = kind
Lookup(found) == [op |-> "get_webview_window", arg |-> <<"main">>, ok |-> found]

\* the payload of the last event is a JSON array of one or more strings
GoodPayload ==
    /\ lastEvent.payload \in StringArrays
    /\ Len(lastEvent.payload.items) >= 1
FirstOfPayload == lastEvent.payload.items[1].items

\* the last event is one whose handler needs the main window
NeedsWindow ==
    \/ Handled("deep-link") /\ GoodPayload
    \/ Handled("menu") /\ lastEvent.id \in {"show", "dashboard", "incidents"}
    \/ Handled("tray-icon") /\ lastEvent.id = "DoubleClick"

\* the calls the handler of the last event makes on a window it has found
ExpectedOps ==
    IF Handled("deep-link") \/ lastEvent.id \in {"dashboard", "incidents"}
    THEN <<"get_webview_window", "show", "set_focus", "eval">>
    ELSE <<"get_webview_window", "show", "set_focus">>

\* the text the URL escaping stands for: the backslash in front of a quote
\* is dropped
RECURSIVE Unescape(_)
Unescape(s) ==
    IF s = <<>> THEN <<>>
    ELSE IF Len(s) >= 2 /\ s[1] = BACKSLASH /\ s[2] = QUOTE
         THEN <<QUOTE>> \o Unescape(SubSeq(s, 3, Len(s)))
         ELSE <<Head(s)>> \o Unescape(Tail(s))

\* the deep-link script is 11 template tokens around two copies of the URL
\* text; the first copy starts at token 3, the second at token 10 + n
UrlTextLen(js) == (Len(js) - 11) \div 2
FirstSlot(js) == SubSeq(js, 3, 2 + UrlTextLen(js))
SecondSlot(js) == SubSeq(js, 10 + UrlTextLen(js), 9 + 2 * UrlTextLen(js))

\* C1: a deep-link event with a JSON array of one or more strings, handled
\* with the main window present, injects exactly one script; the URL text in
\* the global-variable assignment and in the event detail is the first
\* element of the array (with its single quotes escaped), and the calls made
\* are the same whatever the other elements are.
C1_FirstElementOnly ==
    (Handled("deep-link") /\ GoodPayload /\ before.exists) =>
        /\ Len(Evals(trace)) = 1
        /\ Ops(trace) = <<"get_webview_window", "show", "set_focus", "eval">>
        /\ LET js == Evals(trace)[1].arg
           IN /\ js = format(FirstSlot(js), SecondSlot(js))
              /\ Unescape(FirstSlot(js)) = FirstOfPayload
              /\ Unescape(SecondSlot(js)) = FirstOfPayload

\* a payload of two different URLs has been handled with the window present
C1_Witness ==
    /\ Handled("deep-link") /\ GoodPayload /\ before.exists
    /\ Len(lastEvent.payload.items) = 2
    /\ lastEvent.payload.items[2].items # FirstOfPayload
    /\ Len(FirstOfPayload) = 2
    /\ Len(Evals(trace)) = 1

\* where a single-quoted JavaScript string literal whose text starts at
\* token i is closed: a backslash takes the next token with it, the first
\* quote not taken that way closes the literal (0: never closed)
RECURSIVE CloseOf(_, _)
CloseOf(js, i) ==
    IF i > Len(js) THEN 0
    ELSE IF js[i] = BACKSLASH THEN CloseOf(js, i + 2)
    ELSE IF js[i] = QUOTE THEN i
    ELSE CloseOf(js, i + 1)

\* C2: in the script injected for a deep link, neither of the two
\* single-quoted literals that hold the URL is closed before the end of the
\* URL text, for URLs over single quote, backslash and ordinary characters
\* (stated of a script the web view accepted for evaluation).
C2_NoPrematureClose ==
    (Handled("deep-link") /\ Len(Evals(trace)) = 1 /\ Evals(trace)[1].ok) =>
        LET js == Evals(trace)[1].arg
            n == UrlTextLen(js)
        IN /\ CloseOf(js, 3) \notin 3..(2 + n)
           /\ CloseOf(js, 10 + n) \notin (10 + n)..(9 + 2 * n)

\* C3: a deep-link event whose payload is an empty array or is not a JSON
\* array of strings makes no call at all (no lookup, no window operation, no
\* script), leaves the window as it was, raises no error and does not exit;
\* the event loop goes on.
C3_BadPayloadDropped ==
    (Handled("deep-link") /\ ~GoodPayload) =>
        /\ trace = <<>>
        /\ window = before
        /\ ~crashed /\ ~exited
        /\ ENABLED ReturnToLoop

\* an empty array has been handled while the main window exists
C3_Witness ==
    /\ Handled("deep-link")
    /\ lastEvent.payload = JArr(<<>>)
    /\ before.exists
    /\ trace = <<>>

\* C4: the menu handler dispatches by identity: "show" reveals and focuses
\* and injects nothing; "dashboard" and "incidents" reveal, focus and inject
\* the script that sets the hash to their route; "quit" exits; any other
\* identity does nothing.
C4_MenuDispatch ==
    Handled("menu") =>
        /\ (lastEvent.id = "show" /\ before.exists) =>
              /\ Ops(trace) = <<"get_webview_window", "show", "set_focus">>
              /\ ~exited
        /\ (lastEvent.id = "dashboard" /\ before.exists) =>
              /\ Ops(trace) = <<"get_webview_window", "show", "set_focus", "eval">>
              /\ trace[4].arg = <<"window.location.hash = ", "'", "#/dashboard", "'", ";">>
              /\ ~exited
        /\ (lastEvent.id = "incidents" /\ before.exists) =>
              /\ Ops(trace) = <<"get_webview_window", "show", "set_focus", "eval">>
              /\ trace[4].arg = <<"window.location.hash = ", "'", "#/incidents", "'", ";">>
              /\ ~exited
        /\ (lastEvent.id \in {"show", "dashboard", "incidents"} /\ before.exists) =>
              /\ trace[2].ok => window.visible
              /\ trace[3].ok => window.focused
        /\ lastEvent.id = "quit" => exited
        /\ lastEvent.id \notin {"show", "dashboard", "incidents", "quit"} =>
              /\ trace = <<>>
              /\ window = before
              /\ ~exited

\* "dashboard" has been selected with the window hidden and every call good
C4_Witness ==
    /\ Handled("menu") /\ lastEvent.id = "dashboard"
    /\ before.exists /\ ~before.visible
    /\ Len(trace) = 4 /\ trace[4].ok
    /\ window.visible /\ window.focused

\* C5: "quit" exits with code 0, and the only call its handler makes is the
\* exit: no lookup, reveal, focus or script, with or without a main window.
C5_QuitOnlyExits ==
    (Handled("menu") /\ lastEvent.id = "quit") =>
        /\ exited /\ exitCode = 0
        /\ trace = <<[op |-> "exit", arg |-> <<"0">>, ok |-> TRUE]>>
        /\ window = before

\* "quit" has been selected while the main window exists and is hidden
C5_Witness ==
    /\ Handled("menu") /\ lastEvent.id = "quit"
    /\ before.exists /\ ~before.visible
    /\ exited

\* C6: the process has exited only if the last event handled is the menu
\* event "quit", and then with code 0; no other event issues an exit.
C6_ExitOnlyOnQuit ==
    /\ exited => (lastEvent = MenuEv("quit") /\ exitCode = 0)
    /\ (\E i \in 1..Len(trace) : trace[i].op = "exit") => lastEvent = MenuEv("quit")
    /\ ~exited => exitCode = -1

\* the process has exited
C6_Witness == exited /\ exitCode = 0 /\ loop = "dispatched"

\* C7: a double click on the tray icon reveals and focuses the main window
\* whatever its visibility and focus were, and injects no script; any other
\* tray icon event makes no call.
C7_TrayDoubleClick ==
    Handled("tray-icon") =>
        /\ (lastEvent.id = "DoubleClick" /\ before.exists) =>
              /\ Ops(trace) = <<"get_webview_window", "show", "set_focus">>
              /\ trace[2].ok => window.visible
              /\ trace[3].ok => window.focused
        /\ lastEvent.id # "DoubleClick" =>
              /\ trace = <<>>
              /\ window = before
        /\ Evals(trace) = <<>>
        /\ ~exited

\* a double click has brought up a window that was hidden and unfocused
C7_Witness ==
    /\ Handled("tray-icon") /\ lastEvent.id = "DoubleClick"
    /\ before.exists /\ ~before.visible /\ ~before.focused
    /\ window.visible /\ window.focused

\* C8: with no main window, a handler that needs it makes the lookup and
\* nothing else: no reveal, focus or script, no error, no exit; the event
\* loop goes on.
C8_MissingWindowSkips ==
    (NeedsWindow /\ ~before.exists) =>
        /\ trace = <<Lookup(FALSE)>>
        /\ window = before
        /\ ~crashed /\ ~exited
        /\ ENABLED ReturnToLoop

\* a deep link has arrived while there is no main window
C8_Witness ==
    /\ Handled("deep-link") /\ GoodPayload
    /\ ~before.exists
    /\ Len(trace) = 1

\* C9: whatever the reveal, the focus and the script evaluation return, the
\* handler makes each of its calls, in order, and returns normally; the
\* process neither crashes nor exits and the event loop goes on.
C9_ResultsDiscarded ==
    (NeedsWindow /\ before.exists) =>
        /\ Ops(trace) = ExpectedOps
        /\ ~crashed /\ ~exited
        /\ ENABLED ReturnToLoop

\* the reveal and the focus failed and the script was still injected
C9_Witness ==
    /\ Handled("deep-link") /\ GoodPayload /\ before.exists
    /\ Len(trace) = 4
    /\ ~trace[2].ok /\ ~trace[3].ok
    /\ trace[4].op = "eval"

Rank(op) ==
    CASE op = "get_webview_window" -> 0
      [] op = "show" -> 1
      [] op = "set_focus" -> 2
      [] op = "eval" -> 3
      [] OTHER -> 4

\* C10: the deep-link handler reveals the window, then focuses it, then
\* injects the script, so a hidden window is visible after a deep link whose
\* reveal succeeds; in every handler the calls come in the order lookup,
\* reveal, focus, script.
C10_RevealFocusInject ==
    /\ \A i \in 1..Len(trace) : \A j \in 1..Len(trace) :
          i < j => Rank(trace[i].op) < Rank(trace[j].op)
    /\ (Handled("deep-link") /\ GoodPayload /\ before.exists) =>
          /\ Len(trace) = 4
          /\ trace[2].op = "show" /\ trace[3].op = "set_focus"
          /\ trace[4].op = "eval"
          /\ trace[2].ok => window.visible
          /\ trace[3].ok => window.focused

\* a deep link has made a hidden window visible
C10_Witness ==
    /\ Handled("deep-link") /\ GoodPayload
    /\ before.exists /\ ~before.visible
    /\ window.visible
    /\ Len(trace) = 4 /\ trace[4].op = "eval"

====
